---------------------------- MODULE Spec2Model ----------------------------
(***************************************************************************)
(* Gesture server: backend/server.py (Socket.IO handlers) and              *)
(* backend/hand_tracker.py (HandTracker.detect_gesture).                   *)
(*                                                                         *)
(* Normalized landmark coordinates (floats in [0,1] in the source) are     *)
(* integers in hundredths: 0.15 is 15, 0.08 is 8.  A position is <<x, y>>; *)
(* Python's None for a position is the empty tuple.  The Euclidean length  *)
(* sqrt(a^2 + b^2) is compared through its square.                         *)
(***************************************************************************)
EXTENDS Integers, Sequences, FiniteSets, TLC

VARIABLES
    previous_wrist_pos, \* HandTracker.previous_wrist_pos of the one global hand_tracker
    connected,          \* clients with an open Socket.IO connection
    outbox,             \* events emitted by the latest handler invocation, in order
    last,               \* the latest handler invocation: event, sender, inputs, state before
    session_prev,       \* history: per client, the tracker state its own frames alone would give
    reset_requested,    \* history: per client, start/stop_tracking seen and no hand frame since
    tracking            \* history: per client, start_tracking seen and no stop_tracking or disconnect since

vars == <<previous_wrist_pos, connected, outbox, last, session_prev, reset_requested,
          tracking>>

-----------------------------------------------------------------------------
(* Bounds of the model *)

\* pointing-vector components reach direction_threshold + MaxOver in magnitude
MaxOver == 1
\* the wrist takes MaxMove + 1 positions along a diagonal
MaxMove == 1

(* Program constants *)

\* self.direction_threshold = 0.15
direction_threshold == 15
\* if index_length > 0.08
index_length_threshold == 8
\* HandTracker(max_num_hands=1): the detector returns at most this many hands
max_num_hands == 1
\* a hand landmark set has 21 points, indices 0..20
NumLandmarks == 21

Clients == {"c1", "c2"}

None == <<>>

-----------------------------------------------------------------------------
(* Inputs *)

Abs(n) == IF n < 0 THEN -n ELSE n

Offsets ==
    {0} \cup {s * (direction_threshold + k) : s \in {-1, 1}, k \in 0..MaxOver}

Wrists == {<<50 + i, 50 - i>> : i \in 0..MaxMove}

\* index finger lengths around the extension threshold (the MCP sits below the tip)
Extensions == {index_length_threshold, index_length_threshold + 1}

\* A well-formed landmark set: the landmarks detect_gesture reads for the
\* classification and the movement (0 = wrist, 5 = index MCP, 8 = index tip).
ValidHands ==
    {[count |-> NumLandmarks,
      wrist |-> w,
      index_tip |-> <<w[1] + dx, w[2] + dy>>,
      index_mcp |-> <<w[1] + dx, w[2] + dy + e>>] :
        w \in Wrists, dx \in Offsets, dy \in Offsets, e \in Extensions}

\* A landmark set that is one point short
ShortHands ==
    {[count |-> NumLandmarks - 1,
      wrist |-> w,
      index_tip |-> <<w[1], w[2] - direction_threshold - 1>>,
      index_mcp |-> <<w[1], w[2]>>] : w \in Wrists}

Hands == ValidHands \cup ShortHands

\* What hands.process does with a decoded frame: it raises, or it returns
\* multi_hand_landmarks (None is the empty sequence).
NoDetection == [raises |-> FALSE, hands |-> <<>>]

HandSeqs == UNION {[1..n -> Hands] : n \in 0..max_num_hands}

Detections ==
    {[raises |-> TRUE, hands |-> <<>>]} \cup
    {[raises |-> FALSE, hands |-> hs] : hs \in HandSeqs}

\* The 'image' string of a frame event, cut at its commas.  A piece is
\*   ""      the empty string
\*   "hdr"   a data-URL header (data:image/jpeg;base64)
\*   "bad"   text base64.b64decode rejects (incorrect padding)
\*   "junk"  text b64decode turns into bytes that are no image
\*   "image" base64 of an encoded image
\* A missing 'image' key reads as <<"">> (data.get('image', '')).
Payloads ==
    {<<"">>, <<"bad">>, <<"junk">>, <<"image">>,
     <<"hdr", "">>, <<"hdr", "bad">>, <<"hdr", "junk">>, <<"hdr", "image">>}

-----------------------------------------------------------------------------
(* HandTracker.detect_gesture *)

\* dx, dy: vector from the wrist to the index tip
PointDx(hand) == hand.index_tip[1] - hand.wrist[1]
PointDy(hand) == hand.index_tip[2] - hand.wrist[2]

\* square of index_length, the distance from the index MCP to the index tip
IndexLengthSq(hand) ==
    (hand.index_tip[1] - hand.index_mcp[1]) * (hand.index_tip[1] - hand.index_mcp[1])
  + (hand.index_tip[2] - hand.index_mcp[2]) * (hand.index_tip[2] - hand.index_mcp[2])

\* Variant: the extension test is not strict
Extended_NonStrict(hand) ==
    IndexLengthSq(hand) >= index_length_threshold * index_length_threshold

Extended(hand) ==
    IndexLengthSq(hand) > index_length_threshold * index_length_threshold

\* Variant: a tie between |dy| and |dx| counts as vertical
Classify_TieVertical(hand) ==
    LET dx == PointDx(hand)
        dy == PointDy(hand)
    IN  IF Extended(hand)
        THEN IF Abs(dy) >= Abs(dx)
             THEN IF dy < -direction_threshold THEN "Up"
                  ELSE IF dy > direction_threshold THEN "Down"
                  ELSE "None"
             ELSE IF dx < -direction_threshold THEN "Left"
                  ELSE IF dx > direction_threshold THEN "Right"
                  ELSE "None"
        ELSE "None"

\* Variant: the dead-zone comparisons are not strict
Classify_NonStrict(hand) ==
    LET dx == PointDx(hand)
        dy == PointDy(hand)
    IN  IF Extended(hand)
        THEN IF Abs(dy) > Abs(dx)
             THEN IF dy <= -direction_threshold THEN "Up"
                  ELSE IF dy >= direction_threshold THEN "Down"
                  ELSE "None"
             ELSE IF dx <= -direction_threshold THEN "Left"
                  ELSE IF dx >= direction_threshold THEN "Right"
                  ELSE "None"
        ELSE "None"

\* The direction one hand sets, "None" when it sets none
Classify(hand) ==
    LET dx == PointDx(hand)
        dy == PointDy(hand)
    IN  IF Extended(hand)
        THEN IF Abs(dy) > Abs(dx)
             THEN IF dy < -direction_threshold THEN "Up"
                  ELSE IF dy > direction_threshold THEN "Down"
                  ELSE "None"
             ELSE IF dx < -direction_threshold THEN "Left"
                  ELSE IF dx > direction_threshold THEN "Right"
                  ELSE "None"
        ELSE "None"

\* Variant: the delta is taken the wrong way round
Movement_Reversed(prev, hand) ==
    IF prev # None
    THEN [movement_dx |-> prev[1] - hand.wrist[1],
          movement_dy |-> prev[2] - hand.wrist[2],
          has_previous_pos |-> TRUE]
    ELSE [movement_dx |-> 0, movement_dy |-> 0, has_previous_pos |-> FALSE]

\* movement_dx, movement_dy, has_previous_pos, read from the old position
Movement(prev, hand) ==
    IF prev # None
    THEN [movement_dx |-> hand.wrist[1] - prev[1],
          movement_dy |-> hand.wrist[2] - prev[2],
          has_previous_pos |-> TRUE]
    ELSE [movement_dx |-> 0, movement_dy |-> 0, has_previous_pos |-> FALSE]

\* Where the tracker stands after one hand of the loop
UpdatedWristPos(prev, hand) == hand.wrist

\* Variant: previous_wrist_pos is updated before the delta is read
ProcessHand_UpdateFirst(acc, hand) ==
    IF acc.raised THEN acc
    ELSE IF hand.count < NumLandmarks
    THEN [acc EXCEPT !.raised = TRUE]
    ELSE [direction |-> IF Classify(hand) # "None" THEN Classify(hand)
                        ELSE acc.direction,
          hand_data |-> <<Movement(UpdatedWristPos(acc.prev, hand), hand)>>,
          prev      |-> UpdatedWristPos(acc.prev, hand),
          raised    |-> FALSE]

\* Variant: a direction is reported only once the wrist has held still
ProcessHand_Debounced(acc, hand) ==
    IF acc.raised THEN acc
    ELSE IF hand.count < NumLandmarks
    THEN [acc EXCEPT !.raised = TRUE]
    ELSE [direction |-> IF Classify(hand) # "None" /\ acc.prev = hand.wrist
                        THEN Classify(hand)
                        ELSE acc.direction,
          hand_data |-> <<Movement(acc.prev, hand)>>,
          prev      |-> UpdatedWristPos(acc.prev, hand),
          raised    |-> FALSE]

\* One iteration of `for hand_landmarks in results.multi_hand_landmarks`.
\* acc: [direction, hand_data (a sequence of at most one dict), prev, raised]
ProcessHand(acc, hand) ==
    IF acc.raised THEN acc
    ELSE IF hand.count < NumLandmarks
    THEN [acc EXCEPT !.raised = TRUE]
    ELSE [direction |-> IF Classify(hand) # "None" THEN Classify(hand)
                        ELSE acc.direction,
          hand_data |-> <<Movement(acc.prev, hand)>>,
          prev      |-> UpdatedWristPos(acc.prev, hand),
          raised    |-> FALSE]

RECURSIVE ProcessHands(_, _)
ProcessHands(acc, hands) ==
    IF hands = <<>> THEN acc
    ELSE ProcessHands(ProcessHand(acc, Head(hands)), Tail(hands))

\* Variant: the else branch that resets the position is missing
detect_gesture_NoReset(prev, det) ==
    LET start == [direction |-> "None", hand_data |-> <<>>,
                  prev |-> prev, raised |-> FALSE]
    IN  IF det.raises THEN [start EXCEPT !.raised = TRUE]
        ELSE IF det.hands = <<>> THEN start
        ELSE ProcessHands(start, det.hands)

\* detect_gesture(frame) with the tracker at prev and the detector answering det
detect_gesture(prev, det) ==
    LET start == [direction |-> "None", hand_data |-> <<>>,
                  prev |-> prev, raised |-> FALSE]
    IN  IF det.raises THEN [start EXCEPT !.raised = TRUE]
        ELSE IF det.hands = <<>> THEN [start EXCEPT !.prev = None]
        ELSE ProcessHands(start, det.hands)

-----------------------------------------------------------------------------
(* server.py: decoding the payload of a frame event *)

\* image_data after `if ',' in image_data: image_data = image_data.split(',')[1]`
StripPrefix(payload) == IF Len(payload) > 1 THEN payload[2] ELSE payload[1]

\* base64.b64decode: the bytes it returns, or "raise"
b64decode(piece) ==
    CASE piece = ""      -> "no_bytes"
      [] piece = "hdr"   -> "junk_bytes"
      [] piece = "bad"   -> "raise"
      [] piece = "junk"  -> "junk_bytes"
      [] piece = "image" -> "image_bytes"

\* cv2.imdecode: a frame, None for bytes that are no image, or "raise" on an empty buffer
imdecode(bytes) ==
    CASE bytes = "no_bytes"    -> "raise"
      [] bytes = "junk_bytes"  -> "None"
      [] bytes = "image_bytes" -> "frame"

\* Variant: the `if not image_data: return` test is missing
Decode_NoEmptyCheck(payload) ==
    LET bytes == b64decode(StripPrefix(payload))
    IN  IF bytes = "raise" THEN "raise"
        ELSE IF imdecode(bytes) = "raise" THEN "raise"
        ELSE IF imdecode(bytes) = "None" THEN "no_frame"
        ELSE "frame"

\* How far handle_frame gets with a payload before the detector is called:
\*   "empty"     `if not image_data: return`
\*   "raise"     b64decode or imdecode raised
\*   "no_frame"  `if frame is None: return`
\*   "frame"     a frame reaches detect_gesture
Decode(payload) ==
    IF Len(payload) = 1 /\ payload[1] = "" THEN "empty"
    ELSE LET bytes == b64decode(StripPrefix(payload))
         IN  IF bytes = "raise" THEN "raise"
             ELSE IF imdecode(bytes) = "raise" THEN "raise"
             ELSE IF imdecode(bytes) = "None" THEN "no_frame"
             ELSE "frame"

\* The detector's answers tried for a payload: all of them for a frame sent
\* as a data URL, a few for a frame sent as bare base64, and none for a
\* payload that never reaches the detector.
BareDetections ==
    {d \in Detections :
        \A i \in 1..Len(d.hands) :
            /\ PointDx(d.hands[i]) = 0
            /\ PointDy(d.hands[i]) < 0
            /\ Extended(d.hands[i])}

DetectionsFor(payload, dets) ==
    IF Decode(payload) # "frame" THEN {NoDetection}
    ELSE IF Len(payload) > 1 THEN dets
    ELSE BareDetections

-----------------------------------------------------------------------------
(* server.py: events sent back to the sender *)

Event(name, to, direction, data) ==
    [name |-> name, to |-> to, direction |-> direction, data |-> data]

ErrorEvent(c) == Event("error", c, "None", <<>>)
ResponseEvent(c) == Event("response", c, "None", <<>>)

\* Variant: the command is emitted without the `if direction` test
GestureEmits_Always(c, direction) ==
    <<Event("gesture_command", c, direction, <<>>)>>

\* `if direction: emit('gesture_command', ...)`; the timestamp is left out
GestureEmits(c, direction) ==
    IF direction # "None" THEN <<Event("gesture_command", c, direction, <<>>)>>
    ELSE <<>>

\* `if hand_data: emit('hand_data', hand_data)`
HandDataEmits(c, hand_data) ==
    IF hand_data # <<>> THEN <<Event("hand_data", c, "None", hand_data)>>
    ELSE <<>>

\* Variant: hand_data is sent only when no command was (`elif hand_data`)
FrameEmits_ElseIf(c, payload, prev, det) ==
    IF Decode(payload) = "raise" THEN <<ErrorEvent(c)>>
    ELSE IF Decode(payload) # "frame" THEN <<>>
    ELSE LET r == detect_gesture(prev, det)
         IN  IF r.raised THEN <<ErrorEvent(c)>>
             ELSE IF r.direction # "None" THEN GestureEmits(c, r.direction)
             ELSE HandDataEmits(c, r.hand_data)

\* Variant: no try/except, an exception of the detector emits nothing
FrameEmits_NoCatch(c, payload, prev, det) ==
    IF Decode(payload) = "raise" THEN <<ErrorEvent(c)>>
    ELSE IF Decode(payload) # "frame" THEN <<>>
    ELSE LET r == detect_gesture(prev, det)
         IN  IF r.raised THEN <<>>
             ELSE GestureEmits(c, r.direction) \o HandDataEmits(c, r.hand_data)

\* Variant: hand_data is sent before the command
FrameEmits_HandDataFirst(c, payload, prev, det) ==
    IF Decode(payload) = "raise" THEN <<ErrorEvent(c)>>
    ELSE IF Decode(payload) # "frame" THEN <<>>
    ELSE LET r == detect_gesture(prev, det)
         IN  IF r.raised THEN <<ErrorEvent(c)>>
             ELSE HandDataEmits(c, r.hand_data) \o GestureEmits(c, r.direction)

\* What handle_frame emits, the try/except included
FrameEmits(c, payload, prev, det) ==
    IF Decode(payload) = "raise" THEN <<ErrorEvent(c)>>
    ELSE IF Decode(payload) # "frame" THEN <<>>
    ELSE LET r == detect_gesture(prev, det)
         IN  IF r.raised THEN <<ErrorEvent(c)>>
             ELSE GestureEmits(c, r.direction) \o HandDataEmits(c, r.hand_data)

\* Variant: a frame that is dropped resets the tracker
FrameTracker_ResetOnDrop(payload, prev, det) ==
    IF Decode(payload) = "frame" THEN detect_gesture(prev, det).prev ELSE None

\* The tracker's position after handle_frame
FrameTracker(payload, prev, det) ==
    IF Decode(payload) = "frame" THEN detect_gesture(prev, det).prev ELSE prev

\* Variant: the request is not acknowledged
LifecycleEmits_Silent(c) == <<>>

\* What handle_start_tracking / handle_stop_tracking emit
LifecycleEmits(c) == <<ResponseEvent(c)>>

\* The tracker's position after handle_start_tracking / handle_stop_tracking
LifecycleTracker(prev) == prev

-----------------------------------------------------------------------------
(* State machine *)

Record(event, c, payload, det) ==
    [event |-> event, client |-> c, payload |-> payload, det |-> det,
     prev_before |-> previous_wrist_pos,
     session_before |-> session_prev[c],
     reset_before |-> reset_requested[c],
     tracking_before |-> tracking[c]]

HasEvent(box, name) == \E i \in 1..Len(box) : box[i].name = name

CountEvents(box, name) == Cardinality({i \in 1..Len(box) : box[i].name = name})

Init ==
    /\ previous_wrist_pos = None
    /\ connected = {}
    /\ outbox = <<>>
    /\ session_prev = [c \in Clients |-> None]
    /\ reset_requested = [c \in Clients |-> FALSE]
    /\ tracking = [c \in Clients |-> FALSE]
    /\ last = [event |-> "init", client |-> "c1", payload |-> <<"">>,
               det |-> NoDetection, prev_before |-> None,
               session_before |-> None, reset_before |-> FALSE,
               tracking_before |-> FALSE]

\* handle_connect
Connect(c) ==
    /\ c \notin connected
    /\ connected' = connected \cup {c}
    /\ outbox' = <<ResponseEvent(c)>>
    /\ last' = Record("connect", c, <<"">>, NoDetection)
    /\ UNCHANGED <<previous_wrist_pos, session_prev, reset_requested, tracking>>

\* handle_disconnect
Disconnect(c) ==
    /\ c \in connected
    /\ connected' = connected \ {c}
    /\ outbox' = <<>>
    /\ last' = Record("disconnect", c, <<"">>, NoDetection)
    /\ tracking' = [tracking EXCEPT ![c] = FALSE]
    /\ UNCHANGED <<previous_wrist_pos, session_prev, reset_requested>>

\* Variant: a frame is dropped unless start_tracking came first
Frame_OnlyWhenTracking(c, payload, det) ==
    /\ c \in connected
    /\ LET emits == IF tracking[c]
                    THEN FrameEmits(c, payload, previous_wrist_pos, det)
                    ELSE <<>>
       IN  /\ outbox' = emits
           /\ reset_requested' =
                 [reset_requested EXCEPT ![c] = @ /\ ~HasEvent(emits, "hand_data")]
    /\ previous_wrist_pos' =
          IF tracking[c] THEN FrameTracker(payload, previous_wrist_pos, det)
          ELSE previous_wrist_pos
    /\ last' = Record("frame", c, payload, det)
    /\ session_prev' =
          [session_prev EXCEPT ![c] = FrameTracker(payload, session_prev[c], det)]
    /\ UNCHANGED <<connected, tracking>>

\* handle_frame
Frame(c, payload, det) ==
    /\ c \in connected
    /\ LET emits == FrameEmits(c, payload, previous_wrist_pos, det)
       IN  /\ outbox' = emits
           /\ reset_requested' =
                 [reset_requested EXCEPT ![c] = @ /\ ~HasEvent(emits, "hand_data")]
    /\ previous_wrist_pos' = FrameTracker(payload, previous_wrist_pos, det)
    /\ last' = Record("frame", c, payload, det)
    /\ session_prev' =
          [session_prev EXCEPT ![c] = FrameTracker(payload, session_prev[c], det)]
    /\ UNCHANGED <<connected, tracking>>

\* handle_start_tracking
StartTracking(c) ==
    /\ c \in connected
    /\ previous_wrist_pos' = LifecycleTracker(previous_wrist_pos)
    /\ outbox' = LifecycleEmits(c)
    /\ last' = Record("start_tracking", c, <<"">>, NoDetection)
    /\ reset_requested' = [reset_requested EXCEPT ![c] = TRUE]
    /\ tracking' = [tracking EXCEPT ![c] = TRUE]
    /\ UNCHANGED <<connected, session_prev>>

\* handle_stop_tracking
StopTracking(c) ==
    /\ c \in connected
    /\ previous_wrist_pos' = LifecycleTracker(previous_wrist_pos)
    /\ outbox' = LifecycleEmits(c)
    /\ last' = Record("stop_tracking", c, <<"">>, NoDetection)
    /\ reset_requested' = [reset_requested EXCEPT ![c] = TRUE]
    /\ tracking' = [tracking EXCEPT ![c] = FALSE]
    /\ UNCHANGED <<connected, session_prev>>

\* The handlers, run to completion one at a time (eventlet), for the clients
\* of cs; dets are the detector's answers tried for a data-URL frame.
NextOf(cs, dets) ==
    \/ \E c \in cs : Connect(c)
    \/ \E c \in cs : Disconnect(c)
    \/ \E c \in cs, payload \in Payloads :
          \E det \in DetectionsFor(payload, dets) : Frame(c, payload, det)
    \/ \E c \in cs : StartTracking(c)
    \/ \E c \in cs : StopTracking(c)

\* One client, every detector answer
Next == NextOf({"c1"}, Detections)

Spec == Init /\ [][Next]_vars

\* Two clients whose events interleave, a few detector answers
NextClients == NextOf(Clients, BareDetections)

SpecClients == Init /\ [][NextClients]_vars

\* A tracker built as HandTracker(max_num_hands=2): the detector returns up
\* to two hands, drawn from a few that point up, left, both or nowhere.
FewHands ==
    {h \in ValidHands :
        /\ Extended(h)
        /\ PointDx(h) \in {0, -(direction_threshold + 1)}
        /\ PointDy(h) \in {0, -(direction_threshold + 1)}}

HandsDetections ==
    {[raises |-> FALSE, hands |-> hs] :
        hs \in UNION {[1..n -> FewHands] : n \in 0..(max_num_hands + 1)}}

NextHands == NextOf({"c1"}, HandsDetections)

SpecHands == Init /\ [][NextHands]_vars

TypeOK ==
    /\ previous_wrist_pos \in Wrists \cup {None}
    /\ connected \subseteq Clients
    /\ Len(outbox) <= 2

-----------------------------------------------------------------------------
(* Vocabulary of the properties *)

\* The latest handler was handle_frame
IsFrame == last.event = "frame"

\* ... and its frame reached detect_gesture
ReachedDetector == IsFrame /\ Decode(last.payload) = "frame"

\* ... and the detector found no hand
NoHandFrame == ReachedDetector /\ ~last.det.raises /\ last.det.hands = <<>>

\* ... and the detector returned one 21-point landmark set
HandFrame ==
    /\ ReachedDetector
    /\ ~last.det.raises
    /\ Len(last.det.hands) = 1
    /\ last.det.hands[1].count = NumLandmarks

TheHand == last.det.hands[1]

\* The payload of the hand_data event of the latest handler
HandData == outbox[CHOOSE i \in 1..Len(outbox) : outbox[i].name = "hand_data"].data[1]

\* The direction of the gesture_command of the latest handler, "None" without one
EmittedDirection ==
    IF HasEvent(outbox, "gesture_command")
    THEN outbox[CHOOSE i \in 1..Len(outbox) : outbox[i].name = "gesture_command"].direction
    ELSE "None"

Directions == {"Up", "Down", "Left", "Right"}

-----------------------------------------------------------------------------
(* C1 .. C10 *)

\* C1: after a frame with no detected hand previous_wrist_pos is None; after a
\* frame with a detected hand it is that frame's wrist position, and the
\* movement reported for that frame was read from the old value: it is the
\* difference to the position held before the frame, not to the updated one.
C1_TrackerState ==
    /\ NoHandFrame => previous_wrist_pos = None
    /\ HandFrame =>
          /\ previous_wrist_pos = TheHand.wrist
          /\ HasEvent(outbox, "hand_data")
          /\ last.prev_before # None =>
                /\ HandData.movement_dx = TheHand.wrist[1] - last.prev_before[1]
                /\ HandData.movement_dy = TheHand.wrist[2] - last.prev_before[2]

\* a hand frame that moved the wrist away from a position the tracker held
C1_Witness ==
    /\ HandFrame
    /\ last.prev_before # None
    /\ last.prev_before # TheHand.wrist
    /\ previous_wrist_pos = TheHand.wrist

\* C2: a hand frame processed while previous_wrist_pos is None reports
\* movement (0, 0) with has_previous_pos false; a hand frame that immediately
\* follows a hand frame reports the difference of the two wrists with
\* has_previous_pos true.
C2_MotionTracker ==
    [][ /\ (HandFrame' /\ previous_wrist_pos = None) =>
              HandData' = [movement_dx |-> 0, movement_dy |-> 0,
                           has_previous_pos |-> FALSE]
        /\ (HandFrame /\ HandFrame') =>
              HandData' = [movement_dx |-> TheHand'.wrist[1] - TheHand.wrist[1],
                           movement_dy |-> TheHand'.wrist[2] - TheHand.wrist[2],
                           has_previous_pos |-> TRUE]
      ]_vars

\* the second of two hand frames in a row, the wrist having moved right and up
C2_Witness ==
    /\ HandFrame
    /\ last.prev_before # None
    /\ HasEvent(outbox, "hand_data")
    /\ HandData.has_previous_pos
    /\ HandData.movement_dx > 0
    /\ HandData.movement_dy < 0

\* C3: the movement and has_previous_pos reported to a client are those its
\* own frames alone give, whatever the other client sent in between.
C3_SessionIsolation ==
    HandFrame =>
        /\ HasEvent(outbox, "hand_data")
        /\ HandData = Movement(last.session_before, TheHand)

\* C4: the first frame with a detected hand after a client's start_tracking or
\* stop_tracking reports has_previous_pos false and movement (0, 0).
C4_LifecycleResets ==
    (HandFrame /\ last.reset_before) =>
        /\ HasEvent(outbox, "hand_data")
        /\ HandData = [movement_dx |-> 0, movement_dy |-> 0,
                       has_previous_pos |-> FALSE]

\* The latest handler was handle_frame with a payload that is not empty and
\* does not decode to an image
UndecodableFrame == IsFrame /\ Decode(last.payload) \in {"raise", "no_frame"}

C6_OverlayEvent ==
    HandFrame => CountEvents(outbox, "hand_data") = 1

\* a hand frame without a direction that still sent hand_data
C6_Witness ==
    /\ HandFrame
    /\ Classify(TheHand) = "None"
    /\ ~HasEvent(outbox, "gesture_command")
    /\ HasEvent(outbox, "hand_data")

\* C7: a frame emits at most one gesture_command; its direction is one of
\* Up/Down/Left/Right and is the classifier's output for the frame's hand;
\* none is emitted when the classification is None.
C7_DirectionEvent ==
    IsFrame =>
        /\ CountEvents(outbox, "gesture_command") <= 1
        /\ \A i \in 1..Len(outbox) :
              outbox[i].name = "gesture_command" =>
                  /\ outbox[i].direction \in Directions
                  /\ HandFrame
                  /\ outbox[i].direction = Classify(TheHand)
        /\ (HandFrame /\ Classify(TheHand) = "None") =>
              CountEvents(outbox, "gesture_command") = 0

\* a frame that sent a Left command
C7_Witness ==
    /\ HandFrame
    /\ CountEvents(outbox, "gesture_command") = 1
    /\ EmittedDirection = "Left"

\* C8: with the index finger extended and (dx, dy) = index tip - wrist:
\* if |dy| > |dx| the direction is Up when dy < -0.15, Down when dy > 0.15,
\* else None; if |dy| <= |dx| it is Left when dx < -0.15, Right when
\* dx > 0.15, else None.  A dominant component of exactly +-0.15 gives None.
C8_ClassifierRule ==
    (HandFrame /\ IndexLengthSq(TheHand) > 64) =>
        LET dx == PointDx(TheHand)
            dy == PointDy(TheHand)
            d  == EmittedDirection
        IN  /\ (Abs(dy) > Abs(dx) /\ dy < -15) => d = "Up"
            /\ (Abs(dy) > Abs(dx) /\ dy > 15) => d = "Down"
            /\ (Abs(dy) > Abs(dx) /\ dy >= -15 /\ dy <= 15) => d = "None"
            /\ (Abs(dy) <= Abs(dx) /\ dx < -15) => d = "Left"
            /\ (Abs(dy) <= Abs(dx) /\ dx > 15) => d = "Right"
            /\ (Abs(dy) <= Abs(dx) /\ dx >= -15 /\ dx <= 15) => d = "None"

\* a tie beyond the threshold, |dx| = |dy|, resolved to the horizontal axis
C8_Witness ==
    /\ HandFrame
    /\ IndexLengthSq(TheHand) > 64
    /\ PointDx(TheHand) > 15
    /\ PointDy(TheHand) = -PointDx(TheHand)
    /\ EmittedDirection = "Right"

\* C9: a hand frame whose index extension is <= 0.08 classifies to None and
\* emits no gesture_command, whatever the pointing vector.
C9_FistSuppression ==
    (HandFrame /\ IndexLengthSq(TheHand) <= 64) =>
        /\ Classify(TheHand) = "None"
        /\ ~HasEvent(outbox, "gesture_command")

\* an extension of exactly 0.08 under a vector that would otherwise read Up
C9_Witness ==
    /\ HandFrame
    /\ IndexLengthSq(TheHand) = 64
    /\ PointDx(TheHand) = 0
    /\ PointDy(TheHand) < -15
    /\ outbox # <<>>
    /\ EmittedDirection = "None"

\* C10: a hand frame with the index extended and |dx| <= 0.15, |dy| <= 0.15
\* classifies to None.
C10_DeadZone ==
    (/\ HandFrame
     /\ IndexLengthSq(TheHand) > 64
     /\ Abs(PointDx(TheHand)) <= 15
     /\ Abs(PointDy(TheHand)) <= 15) =>
        /\ Classify(TheHand) = "None"
        /\ EmittedDirection = "None"

\* both components on the edge of the dead zone
C10_Witness ==
    /\ HandFrame
    /\ IndexLengthSq(TheHand) > 64
    /\ Abs(PointDx(TheHand)) = 15
    /\ Abs(PointDy(TheHand)) = 15
    /\ outbox # <<>>
    /\ EmittedDirection = "None"

-----------------------------------------------------------------------------
(* C11 .. C20 *)

\* C11: a frame in which no hand is detected emits nothing and leaves
\* previous_wrist_pos at None; a second no-hand frame right after it does the
\* same and changes nothing.
C11_NoHandReset ==
    [][ /\ NoHandFrame' =>
              /\ previous_wrist_pos' = None
              /\ ~HasEvent(outbox', "hand_data")
              /\ ~HasEvent(outbox', "gesture_command")
        /\ (NoHandFrame /\ NoHandFrame') =>
              /\ previous_wrist_pos' = previous_wrist_pos
              /\ outbox' = outbox
      ]_vars

\* a no-hand frame that found the tracker already reset
C11_Witness ==
    /\ NoHandFrame
    /\ last.prev_before = None
    /\ previous_wrist_pos = None
    /\ outbox = <<>>

\* The detector returned several 21-point landmark sets
MultiHandFrame ==
    /\ ReachedDetector
    /\ ~last.det.raises
    /\ Len(last.det.hands) > 1
    /\ \A i \in 1..Len(last.det.hands) : last.det.hands[i].count = NumLandmarks

\* C12: when the detector returns more than one hand, the direction and the
\* hand_data are those of the first hand, the movement is read against the
\* previous frame's wrist, and previous_wrist_pos becomes the first hand's wrist.
C12_FirstHandOnly ==
    MultiHandFrame =>
        /\ EmittedDirection = Classify(last.det.hands[1])
        /\ HasEvent(outbox, "hand_data")
        /\ HandData = Movement(last.prev_before, last.det.hands[1])
        /\ previous_wrist_pos = last.det.hands[1].wrist

\* The latest handler was handle_frame and an exception made it drop the frame
ErrorFrame == IsFrame /\ HasEvent(outbox, "error")

\* C13: whenever an error forces a frame to be discarded (decode error,
\* detector exception, invalid landmark set) previous_wrist_pos is None
\* afterwards.
C13_ErrorResets ==
    ErrorFrame => previous_wrist_pos = None

\* The detector returned a landmark set with fewer than 21 points
ShortHandFrame ==
    /\ ReachedDetector
    /\ ~last.det.raises
    /\ Len(last.det.hands) = 1
    /\ last.det.hands[1].count # NumLandmarks

\* C14: a landmark set whose cardinality is not 21 is treated as no hand: no
\* hand_data, no gesture_command, and previous_wrist_pos is None afterwards.
C14_InvalidInputDegrade ==
    ShortHandFrame =>
        /\ ~HasEvent(outbox, "hand_data")
        /\ ~HasEvent(outbox, "gesture_command")
        /\ previous_wrist_pos = None

\* The latest handler was handle_start_tracking or handle_stop_tracking
IsLifecycle == last.event \in {"start_tracking", "stop_tracking"}

\* C15: every start_tracking and stop_tracking is answered with exactly one
\* response event and nothing else, and the same request repeated leaves the
\* state as the first one left it.
C15_LifecycleAck ==
    [][ /\ IsLifecycle' =>
              /\ Len(outbox') = 1
              /\ outbox'[1].name = "response"
              /\ outbox'[1].to = last'.client
        /\ (IsLifecycle /\ last'.event = last.event /\ last'.client = last.client) =>
              /\ previous_wrist_pos' = previous_wrist_pos
              /\ tracking' = tracking
              /\ reset_requested' = reset_requested
              /\ connected' = connected
              /\ outbox' = outbox
      ]_vars

\* stop_tracking acknowledged although no tracking was going on
C15_Witness ==
    /\ last.event = "stop_tracking"
    /\ ~last.tracking_before
    /\ last.reset_before
    /\ CountEvents(outbox, "response") = 1

\* The latest handler was handle_frame and hands.process raised
DetectorRaised == ReachedDetector /\ last.det.raises

\* C16 as stated: an exception of the detector is caught, and the session is
\* torn down: the next frame of that client emits neither gesture_command nor
\* hand_data.
C16_SessionTornDown ==
    [][ /\ DetectorRaised' => outbox' = <<ErrorEvent(last'.client)>>
        /\ (DetectorRaised /\ IsFrame' /\ last'.client = last.client) =>
              /\ ~HasEvent(outbox', "gesture_command")
              /\ ~HasEvent(outbox', "hand_data")
      ]_vars

\* C16 amended: an exception of the detector is caught and answered with one
\* error event; the connection stays open, and a hand frame that follows is
\* processed as any other.
C16_FailureContained ==
    [][ /\ DetectorRaised' =>
              /\ outbox' = <<ErrorEvent(last'.client)>>
              /\ connected' = connected
              /\ last'.client \in connected'
        /\ (DetectorRaised /\ HandFrame') =>
              /\ CountEvents(outbox', "hand_data") = 1
              /\ EmittedDirection' = Classify(TheHand')
              /\ previous_wrist_pos' = TheHand'.wrist
      ]_vars

\* the detector raised, the sender got its error event and is still connected
C16_Witness ==
    /\ DetectorRaised
    /\ last.client \in connected
    /\ CountEvents(outbox, "error") = 1

\* C17: the direction of a hand frame is the one the same landmark set gives
\* on a tracker with no history, whatever the earlier frames were.
C17_HistoryIndependent ==
    HandFrame => EmittedDirection = detect_gesture(None, last.det).direction

\* a direction reported right after the wrist moved
C17_Witness ==
    /\ HandFrame
    /\ last.prev_before # None
    /\ last.prev_before # TheHand.wrist
    /\ EmittedDirection \in Directions

\* C18: a decodable frame that arrives before any start_tracking or after a
\* stop_tracking goes through detection and emits what it emits while
\* tracking: hand_data for a hand, the classified direction, nothing without
\* a hand.
C18_LifecycleIndependent ==
    (ReachedDetector /\ ~last.tracking_before) =>
        /\ HandFrame =>
              /\ CountEvents(outbox, "hand_data") = 1
              /\ HandData = Movement(last.prev_before, TheHand)
              /\ EmittedDirection = Classify(TheHand)
              /\ previous_wrist_pos = TheHand.wrist
        /\ NoHandFrame => (outbox = <<>> /\ previous_wrist_pos = None)

\* a hand frame after stop_tracking that still produced a command
C18_Witness ==
    /\ HandFrame
    /\ ~last.tracking_before
    /\ last.reset_before
    /\ EmittedDirection \in Directions
    /\ HasEvent(outbox, "hand_data")

\* C19: whenever a frame emits a gesture_command it also emits a hand_data,
\* the gesture_command first and the hand_data right after it, both to the
\* sender of the frame.
C19_EventOrder ==
    (IsFrame /\ HasEvent(outbox, "gesture_command")) =>
        /\ Len(outbox) = 2
        /\ outbox[1].name = "gesture_command"
        /\ outbox[2].name = "hand_data"
        /\ outbox[1].to = last.client
        /\ outbox[2].to = last.client

\* a frame that sent a Down command followed by its hand_data
C19_Witness ==
    /\ HandFrame
    /\ Len(outbox) = 2
    /\ outbox[1].name = "gesture_command"
    /\ outbox[1].direction = "Down"
    /\ outbox[2].name = "hand_data"

\* C20: a frame event whose 'image' is missing or empty emits no event and
\* leaves previous_wrist_pos unchanged.
C20_EmptyPayload ==
    (IsFrame /\ last.payload = <<"">>) =>
        /\ outbox = <<>>
        /\ previous_wrist_pos = last.prev_before

\* an empty frame event arriving while the tracker holds a wrist position
C20_Witness ==
    /\ IsFrame
    /\ last.payload = <<"">>
    /\ last.prev_before # None
    /\ previous_wrist_pos = last.prev_before
    /\ outbox = <<>>

=============================================================================
